---- MODULE Spec2Model ----
(***************************************************************************)
(* The multi-backend query engine of llm-council (backend/openrouter.py,   *)
(* query_models_parallel) and the streaming council pipeline that drives   *)
(* it (backend/main.py, send_message_stream.event_generator); the backend  *)
(* clients behind query_model (backend/openrouter.py, docker_utils.py);    *)
(* and the aggregation of the stage-2 rankings.                            *)
(*                                                                         *)
(* asyncio is cooperative: one action of this model is the code a task     *)
(* runs between two suspension points (an await that really suspends).     *)
(***************************************************************************)
EXTENDS Integers, Sequences, FiniteSets, TLC

\* Longest list of models handed to query_models_parallel.
MaxModels == 3

\* A model identifier is a string; it is modelled as its sequence of tokens,
\* "/" being a token of its own, so that str.partition("/") is computed.
\* The lists of models handed to the engine are the non-empty sub-lists
\* (order kept) of ModelPool with at most MaxModels entries: the code treats
\* models of one lane alike, so lists that differ by a renaming of the
\* models behave alike.
ModelPool ==
    << <<"openai", "/", "a">>, <<"local", "/", "a">>,
       <<"ollama", "/", "b">>, <<"local", "/", "b">> >>

VARIABLES
    models,         \* the `models` argument (a list of identifiers)
    hasProgress,    \* TRUE iff an on_progress callback was supplied
    parTask,        \* state of each run_parallel_and_enqueue task
    local_task,     \* state of the run_local_sequential task ("none": not created)
    localIdx,       \* position in local_models of the lane's for loop (1-based)
    inFlight,       \* models whose query_model call has started and not ended
    result_queue,   \* asyncio.Queue of (model, response, error)
    responses,      \* the result map under construction
    drained,        \* iterations of the drain loop completed or under way
    pc,             \* where the body of query_models_parallel stands
    cur,            \* the model on_progress is running for (pc = "progress")
    pending,        \* exception travelling through the finally block
    outcome,        \* history: how each model's query_model call ended
    arrivals,       \* history: the models in the order their outcomes were enqueued
    queried,        \* history: models whose query_model call was started
    progressCalls,  \* history: models on_progress was invoked with, in order
    progressDone,   \* history: on_progress invocations that have finished, and how
    returned,       \* history: what query_models_parallel handed to its caller
    genPc,          \* where event_generator is suspended
    stage,          \* the stage whose engine call the stage task runs (0: none yet)
    disconnected,   \* what http_request.is_disconnected() answers
    is_first_message,
    title_task,     \* state of the generate_conversation_title task
    progress_queue, \* stage1_progress_queue / stage2_progress_queue
    events,         \* the events event_generator has yielded, in order
    userSaved,      \* calls of storage.add_user_message
    assistantSaved, \* calls of storage.add_assistant_message
    titleSaved,     \* calls of storage.update_conversation_title
    stage1_results, \* the value of `await stage1_task`
    stage2_results, \* the value of `await stage2_task`
    discAt,         \* history: what was going on when the client disconnected
    model,          \* query_model's `model` argument
    messages,       \* query_model's `messages` argument
    OLLAMA_API_URL, \* the configured base URL of the Ollama endpoint
    cpc,            \* where the query_model coroutine stands
    result,         \* what query_model returned to its caller
    probes,         \* history: the answers of has_docker_socket_access()
    thread,         \* the worker thread asyncio.to_thread runs run_sync on
    runtime,        \* the model runtime behind RamalamaModel
    chats,          \* history: the rm.chat calls
    requests,       \* history: the HTTP requests sent
    answers,        \* history: how each HTTP request was answered
    rankings,       \* the label lists of the stage-2 rankings, as supplied
    aggregate,      \* the value of calculate_aggregate_rankings
    aggPc           \* whether the aggregate has been computed

engineVars ==
    << models, hasProgress, parTask, local_task, localIdx, inFlight, result_queue,
       responses, drained, pc, cur, pending, outcome, arrivals, queried,
       progressCalls, progressDone, returned >>

streamVars ==
    << genPc, stage, disconnected, is_first_message, title_task, progress_queue,
       events, userSaved, assistantSaved, titleSaved, stage1_results,
       stage2_results, discAt >>

clientVars ==
    << model, messages, OLLAMA_API_URL, cpc, result, probes, thread, runtime,
       chats, requests, answers >>

aggVars == << rankings, aggregate, aggPc >>

vars == << engineVars, streamVars, clientVars, aggVars >>

----------------------------------------------------------------------------
\* Helpers on sequences.

Range(s) == { s[i] : i \in DOMAIN s }

InSeq(x, s) == \E i \in DOMAIN s : s[i] = x

\* All lists of pairwise distinct elements of S with 1..n entries.
DistinctSeqs(S, n) ==
    { s \in UNION { [1..k -> S] : k \in 1..n } :
        \A i, j \in DOMAIN s : s[i] = s[j] => i = j }

\* The non-empty sub-lists of pool, order kept, with at most n entries.
SubLists(pool, n) ==
    { s \in DistinctSeqs(Range(pool), n) :
        \A i, j \in DOMAIN s :
           i < j => \E k, l \in DOMAIN pool :
                       k < l /\ pool[k] = s[i] /\ pool[l] = s[j] }

----------------------------------------------------------------------------
\* Values.

Null == <<"null">>

\* The Response a successful query of model m produces.
Resp(m) == <<"content", m>>

NoModel == <<>>

\* str.partition("/")[0]: the part of the identifier before its first "/".
RECURSIVE Partition0(_)
Partition0(m) ==
    IF m = <<>> \/ Head(m) = "/" THEN <<>>
    ELSE <<Head(m)>> \o Partition0(Tail(m))

local_models_empty(ms) == <<>>

\* local_models = [m for m in models if m.partition("/")[0] == "local"]
local_models(ms) == SelectSeq(ms, LAMBDA m : Partition0(m) = <<"local">>)

\* parallel_models = [m for m in models if m not in local_models]
parallel_models(ms) == SelectSeq(ms, LAMBDA m : ~InSeq(m, local_models(ms)))

\* How a query_model call can end: a Response, None, an Exception, or an
\* error that is no Exception (asyncio.CancelledError is a BaseException).
QueryOutcomes == {"ok", "null", "exc", "base"}

\* What run_and_tag makes of the end of query_model (the "base" case leaves
\* run_and_tag by raise and produces no tuple).
run_and_tag(m, out) ==
    IF out = "ok" THEN <<m, Resp(m), "none">>
    ELSE IF out = "null" THEN <<m, Null, "none">>
    ELSE <<m, Null, "exc">>

----------------------------------------------------------------------------
\* query_models_parallel from its call to its first await: the models are
\* split into the two lanes, one task is created per parallel model and one
\* for the whole sequential lane, and the body waits on result_queue.get().
EngineCall ==
    /\ parTask' = [m \in Range(parallel_models(models)) |-> "created"]
    /\ local_task' = IF local_models(models) # <<>> THEN "created" ELSE "none"
    /\ localIdx' = 1
    /\ inFlight' = {}
    /\ result_queue' = <<>>
    /\ responses' = <<>>
    /\ drained' = 0
    /\ pc' = "drain"
    /\ cur' = NoModel
    /\ pending' = "none"
    /\ outcome' = [m \in Range(models) |-> "none"]
    /\ arrivals' = <<>>
    /\ queried' = {}
    /\ progressCalls' = <<>>
    /\ progressDone' = <<>>
    /\ returned' = "nothing"

\* No call of query_models_parallel is under way.
EngineIdle(ms, hp) ==
    /\ models = ms
    /\ hasProgress = hp
    /\ parTask = <<>>
    /\ local_task = "none"
    /\ localIdx = 1
    /\ inFlight = {}
    /\ result_queue = <<>>
    /\ responses = <<>>
    /\ drained = 0
    /\ pc = "idle"
    /\ cur = NoModel
    /\ pending = "none"
    /\ outcome = [m \in Range(ms) |-> "none"]
    /\ arrivals = <<>>
    /\ queried = {}
    /\ progressCalls = <<>>
    /\ progressDone = <<>>
    /\ returned = "nothing"

\* discAt before any disconnect.
NeverDisconnected == [stage |-> -1, running |-> FALSE, unresolved |-> 0, n |-> 0]

\* No streaming turn is under way.
StreamIdle(first) ==
    /\ genPc = "start"
    /\ stage = 0
    /\ disconnected = FALSE
    /\ is_first_message = first
    /\ title_task = "none"
    /\ progress_queue = <<>>
    /\ events = <<>>
    /\ userSaved = 0
    /\ assistantSaved = 0
    /\ titleSaved = 0
    /\ stage1_results = <<>>
    /\ stage2_results = <<>>
    /\ discAt = NeverDisconnected

\* No query_model call of its own is under way.
ClientIdle ==
    /\ model = NoModel
    /\ messages = <<>>
    /\ OLLAMA_API_URL = <<>>
    /\ cpc = "idle"
    /\ result = <<"pending">>
    /\ probes = <<>>
    /\ thread = "none"
    /\ runtime = "absent"
    /\ chats = <<>>
    /\ requests = <<>>
    /\ answers = <<>>

\* No aggregation is under way.
AggIdle ==
    /\ rankings = <<>>
    /\ aggregate = <<>>
    /\ aggPc = "idle"

\* A caller is about to call query_models_parallel(models, messages,
\* on_progress) with a non-empty list of distinct models.
Init == \E ms \in SubLists(ModelPool, MaxModels), hp \in BOOLEAN :
            /\ EngineIdle(ms, hp)
            /\ StreamIdle(FALSE)
            /\ ClientIdle
            /\ AggIdle

\* The call itself.
Call ==
    /\ pc = "idle"
    /\ EngineCall
    /\ UNCHANGED << models, hasProgress >>

----------------------------------------------------------------------------
\* Producer tasks.

putFirst(q, item) == <<item>> \o q

\* await result_queue.put(result) on the asyncio.Queue of the call: the item
\* joins the back of the queue; the queue is unbounded, so put never waits.
put(q, item) == Append(q, item)

\* Task.done(): the task returned, ended with an error, or was cancelled.
Finished == {"done", "failed", "cancelled"}

\* A run_parallel_and_enqueue task gets its first step: run_and_tag awaits
\* query_model(model_name, messages).
ParStart(m) ==
    /\ m \in DOMAIN parTask
    /\ parTask[m] = "created"
    /\ parTask' = [parTask EXCEPT ![m] = "running"]
    /\ inFlight' = inFlight \cup {m}
    /\ queried' = queried \cup {m}
    /\ UNCHANGED << models, hasProgress, local_task, localIdx, result_queue,
                    responses, drained, pc, cur, pending, outcome, arrivals,
                    progressCalls, progressDone, returned >>

\* query_model ends for a parallel model; run_and_tag tags the outcome and the
\* task puts it on the (unbounded) queue and is done. An error that is no
\* Exception leaves run_and_tag and ends the task with nothing enqueued.
ParFinish(m, out) ==
    /\ m \in DOMAIN parTask
    /\ parTask[m] = "running"
    /\ inFlight' = inFlight \ {m}
    /\ outcome' = [outcome EXCEPT ![m] = out]
    /\ IF out = "base"
         THEN /\ parTask' = [parTask EXCEPT ![m] = "failed"]
              /\ UNCHANGED << result_queue, arrivals >>
         ELSE /\ parTask' = [parTask EXCEPT ![m] = "done"]
              /\ result_queue' = put(result_queue, run_and_tag(m, out))
              /\ arrivals' = Append(arrivals, m)
    /\ UNCHANGED << models, hasProgress, local_task, localIdx, responses,
                    drained, pc, cur, pending, queried, progressCalls,
                    progressDone, returned >>

\* A cancelled parallel task is resumed with CancelledError: a task that never
\* ran does not start its query, a running one has its await interrupted and
\* run_and_tag re-raises.
ParCancelled(m) ==
    /\ m \in DOMAIN parTask
    /\ parTask[m] = "cancelling"
    /\ parTask' = [parTask EXCEPT ![m] = "cancelled"]
    /\ inFlight' = inFlight \ {m}
    /\ UNCHANGED << models, hasProgress, local_task, localIdx, result_queue,
                    responses, drained, pc, cur, pending, outcome, arrivals, queried,
                    progressCalls, progressDone, returned >>

LocalStartAfterParallel ==
    /\ local_task = "created"
    /\ \A p \in DOMAIN parTask : parTask[p] \in Finished
    /\ local_task' = "running"
    /\ inFlight' = inFlight \cup {local_models(models)[localIdx]}
    /\ queried' = queried \cup {local_models(models)[localIdx]}
    /\ UNCHANGED << models, hasProgress, parTask, localIdx, result_queue,
                    responses, drained, pc, cur, pending, outcome, arrivals,
                    progressCalls, progressDone, returned >>

\* The run_local_sequential task gets its first step: the for loop awaits
\* run_and_tag of the first local model.
LocalStart ==
    /\ local_task = "created"
    /\ local_task' = "running"
    /\ inFlight' = inFlight \cup {local_models(models)[localIdx]}
    /\ queried' = queried \cup {local_models(models)[localIdx]}
    /\ UNCHANGED << models, hasProgress, parTask, localIdx, result_queue,
                    responses, drained, pc, cur, pending, outcome, arrivals,
                    progressCalls, progressDone, returned >>

LocalFinishStopsOnFailure(out) ==
    /\ local_task = "running"
    /\ LET m == local_models(models)[localIdx]
           n == Len(local_models(models))
       IN  /\ outcome' = [outcome EXCEPT ![m] = out]
           /\ IF out = "base"
                THEN /\ local_task' = "failed"
                     /\ inFlight' = inFlight \ {m}
                     /\ UNCHANGED << result_queue, arrivals, localIdx, queried >>
                ELSE /\ result_queue' = put(result_queue, run_and_tag(m, out))
                     /\ arrivals' = Append(arrivals, m)
                     /\ IF localIdx < n /\ out = "ok"
                          THEN /\ localIdx' = localIdx + 1
                               /\ inFlight' = (inFlight \ {m})
                                    \cup {local_models(models)[localIdx + 1]}
                               /\ queried' = queried
                                    \cup {local_models(models)[localIdx + 1]}
                               /\ UNCHANGED local_task
                          ELSE /\ local_task' = "done"
                               /\ inFlight' = inFlight \ {m}
                               /\ UNCHANGED << localIdx, queried >>
    /\ UNCHANGED << models, hasProgress, parTask, responses, drained, pc, cur,
                    pending, progressCalls, progressDone, returned >>

\* query_model ends for the lane's current model: the outcome is enqueued and
\* the for loop goes on to the next local model, whose query starts in the
\* same step; after the last one the task is done.
LocalFinish(out) ==
    /\ local_task = "running"
    /\ LET m == local_models(models)[localIdx]
           n == Len(local_models(models))
       IN  /\ outcome' = [outcome EXCEPT ![m] = out]
           /\ IF out = "base"
                THEN /\ local_task' = "failed"
                     /\ inFlight' = inFlight \ {m}
                     /\ UNCHANGED << result_queue, arrivals, localIdx, queried >>
                ELSE /\ result_queue' = put(result_queue, run_and_tag(m, out))
                     /\ arrivals' = Append(arrivals, m)
                     /\ IF localIdx < n
                          THEN /\ localIdx' = localIdx + 1
                               /\ inFlight' = (inFlight \ {m})
                                    \cup {local_models(models)[localIdx + 1]}
                               /\ queried' = queried
                                    \cup {local_models(models)[localIdx + 1]}
                               /\ UNCHANGED local_task
                          ELSE /\ local_task' = "done"
                               /\ inFlight' = inFlight \ {m}
                               /\ UNCHANGED << localIdx, queried >>
    /\ UNCHANGED << models, hasProgress, parTask, responses, drained, pc, cur,
                    pending, progressCalls, progressDone, returned >>

\* The cancelled lane task is resumed with CancelledError: the query in
\* flight, if any, is interrupted and the remaining local models never start.
LocalCancelled ==
    /\ local_task = "cancelling"
    /\ local_task' = "cancelled"
    /\ inFlight' = inFlight \ Range(local_models(models))
    /\ UNCHANGED << models, hasProgress, parTask, localIdx, result_queue,
                    responses, drained, pc, cur, pending, outcome, arrivals, queried,
                    progressCalls, progressDone, returned >>

----------------------------------------------------------------------------
\* The body of query_models_parallel.

DrainCountShort == Len(models) - 1

\* for _ in range(len(models))
DrainCount == Len(models)

RecordNonNull(resps, m, r) ==
    IF r = Null THEN resps
    ELSE [x \in DOMAIN resps \cup {m} |-> IF x = m THEN r ELSE resps[x]]

\* responses[model] = response
Record(resps, m, r) ==
    [x \in DOMAIN resps \cup {m} |-> IF x = m THEN r ELSE resps[x]]

CallsProgressOnSuccess(r) == hasProgress /\ r # Null

\* if on_progress:
CallsProgress(r) == hasProgress

\* pending.cancel() for every producer task that is not done.
CancelPending ==
    /\ parTask' = [m \in DOMAIN parTask |->
                     IF parTask[m] \in Finished THEN parTask[m] ELSE "cancelling"]
    /\ local_task' = IF local_task \in Finished \cup {"none"}
                      THEN local_task ELSE "cancelling"

\* The end of one iteration of the drain loop: the next result_queue.get(),
\* or, after the last iteration, the finally block up to its gather.
EndIteration(done) ==
    IF done >= DrainCount
      THEN /\ pc' = "gather"
           /\ CancelPending
      ELSE /\ pc' = "drain"
           /\ UNCHANGED << parTask, local_task >>

\* result_queue.get() returns: the outcome is recorded and on_progress, if
\* there is one, is called with it.
DrainGet ==
    /\ pc = "drain"
    /\ drained < DrainCount
    /\ result_queue # <<>>
    /\ LET item == Head(result_queue)
       IN  /\ result_queue' = Tail(result_queue)
           /\ responses' = Record(responses, item[1], item[2])
           /\ drained' = drained + 1
           /\ IF CallsProgress(item[2])
                THEN /\ pc' = "progress"
                     /\ cur' = item[1]
                     /\ progressCalls' = Append(progressCalls, item[1])
                     /\ UNCHANGED << parTask, local_task >>
                ELSE /\ EndIteration(drained + 1)
                     /\ UNCHANGED << cur, progressCalls >>
    /\ UNCHANGED << models, hasProgress, localIdx, inFlight, pending, outcome, arrivals,
                    queried, progressDone, returned >>

\* How an on_progress call can end.
ProgressOutcomes == {"ok", "error", "cancel"}

ProgressReturnSwallowsAll(how) ==
    /\ pc = "progress"
    /\ progressDone' = Append(progressDone, <<cur, how>>)
    /\ cur' = NoModel
    /\ EndIteration(drained)
    /\ UNCHANGED pending
    /\ UNCHANGED << models, hasProgress, localIdx, inFlight, result_queue,
                    responses, drained, outcome, arrivals, queried, progressCalls,
                    returned >>

ProgressReturnPropagatesAll(how) ==
    /\ pc = "progress"
    /\ progressDone' = Append(progressDone, <<cur, how>>)
    /\ cur' = NoModel
    /\ IF how = "ok"
         THEN /\ EndIteration(drained)
              /\ UNCHANGED pending
         ELSE /\ pending' = how
              /\ pc' = "gather"
              /\ CancelPending
    /\ UNCHANGED << models, hasProgress, localIdx, inFlight, result_queue,
                    responses, drained, outcome, arrivals, queried, progressCalls,
                    returned >>

\* await on_progress(model, response) ends. An Exception is caught and
\* printed and the loop goes on. asyncio.CancelledError leaves the loop: the
\* finally block cancels the producer tasks that are not done and awaits
\* them all.
ProgressReturn(how) ==
    /\ pc = "progress"
    /\ progressDone' = Append(progressDone, <<cur, how>>)
    /\ cur' = NoModel
    /\ IF how = "cancel"
         THEN /\ pending' = "cancel"
              /\ pc' = "gather"
              /\ CancelPending
         ELSE /\ EndIteration(drained)
              /\ UNCHANGED pending
    /\ UNCHANGED << models, hasProgress, localIdx, inFlight, result_queue,
                    responses, drained, outcome, arrivals, queried, progressCalls,
                    returned >>

GatherReturnWithoutWait ==
    /\ pc = "gather"
    /\ IF pending = "none"
         THEN pc' = "returned" /\ returned' = "map"
         ELSE pc' = "raised" /\ returned' = pending
    /\ UNCHANGED << models, hasProgress, parTask, local_task, localIdx, inFlight,
                    result_queue, responses, drained, cur, pending, outcome, arrivals,
                    queried, progressCalls, progressDone >>

\* asyncio.gather(*producer_tasks, return_exceptions=True) completes once
\* every producer task is done; then the call returns the map, or the
\* exception that entered the finally block leaves the call.
GatherReturn ==
    /\ pc = "gather"
    /\ \A m \in DOMAIN parTask : parTask[m] \in Finished
    /\ local_task \in Finished \cup {"none"}
    /\ IF pending = "none"
         THEN pc' = "returned" /\ returned' = "map"
         ELSE pc' = "raised" /\ returned' = pending
    /\ UNCHANGED << models, hasProgress, parTask, local_task, localIdx, inFlight,
                    result_queue, responses, drained, cur, pending, outcome, arrivals,
                    queried, progressCalls, progressDone >>

----------------------------------------------------------------------------

\* One step of a call of query_models_parallel or of one of its tasks.
Next ==
    \/ Call /\ UNCHANGED << streamVars, clientVars, aggVars >>
    \/ \E m \in Range(models) : ParStart(m) /\ UNCHANGED << streamVars, clientVars, aggVars >>
    \/ \E m \in Range(models), out \in QueryOutcomes :
          ParFinish(m, out) /\ UNCHANGED << streamVars, clientVars, aggVars >>
    \/ \E m \in Range(models) : ParCancelled(m) /\ UNCHANGED << streamVars, clientVars, aggVars >>
    \/ LocalStart /\ UNCHANGED << streamVars, clientVars, aggVars >>
    \/ \E out \in QueryOutcomes : LocalFinish(out) /\ UNCHANGED << streamVars, clientVars, aggVars >>
    \/ LocalCancelled /\ UNCHANGED << streamVars, clientVars, aggVars >>
    \/ DrainGet /\ UNCHANGED << streamVars, clientVars, aggVars >>
    \/ \E how \in ProgressOutcomes : ProgressReturn(how) /\ UNCHANGED << streamVars, clientVars, aggVars >>
    \/ GatherReturn /\ UNCHANGED << streamVars, clientVars, aggVars >>

Spec == Init /\ [][Next]_vars

\* The event loop runs every task that is ready, and every query that was
\* started ends: a step that stays possible is eventually taken.
FairSpec == Spec /\ WF_vars(Next)

----------------------------------------------------------------------------
\* The streaming turn: send_message_stream.event_generator. One action runs
\* the generator from the await or yield it is suspended at to the next one.

\* Longest council list of a conversation in the streaming turn.
MaxCouncil == 2

\* The council lists of the streaming turns: the non-empty sub-lists (order
\* kept) of CouncilPool with at most MaxCouncil entries.
CouncilPool == << <<"local", "/", "a">>, <<"openai", "/", "a">>, <<"local", "/", "b">> >>

CouncilLists == SubLists(CouncilPool, MaxCouncil)

Event(type, m, status) == [type |-> type, model |-> m, status |-> status]

StageName(n, what) ==
    IF n = 1 THEN (IF what = "start" THEN "stage1_start"
                   ELSE IF what = "progress" THEN "stage1_progress"
                   ELSE "stage1_complete")
    ELSE IF n = 2 THEN (IF what = "start" THEN "stage2_start"
                        ELSE IF what = "progress" THEN "stage2_progress"
                        ELSE "stage2_complete")
    ELSE (IF what = "start" THEN "stage3_start" ELSE "stage3_complete")

\* stage1_task.done() / stage2_task.done(): stageN_collect awaits
\* query_models_parallel and returns (or is left by its error) in the step
\* in which the engine call returns (or raises).
StageTaskDone == pc \in {"returned", "raised"}

\* How query_model ends in a streaming turn: a Response or None. (An
\* Exception that leaves query_model is turned into None by run_and_tag, so
\* the turn cannot tell it from None.)
ClientOutcomes == {"ok", "null"}

\* How the calls into the council module can end.
CallOutcomes == {"ok", "raise"}

EndCancelledAsError ==
    /\ genPc' = "cancelled"
    /\ events' = Append(events, Event("error", NoModel, ""))
    /\ UNCHANGED << stage, disconnected, is_first_message, title_task,
                    progress_queue, userSaved, assistantSaved, titleSaved,
                    stage1_results, stage2_results, discAt >>

\* except asyncio.CancelledError: return
EndCancelled ==
    /\ genPc' = "cancelled"
    /\ UNCHANGED << stage, disconnected, is_first_message, title_task,
                    progress_queue, events, userSaved, assistantSaved,
                    titleSaved, stage1_results, stage2_results, discAt >>

\* except Exception as e: yield the error event
EndError ==
    /\ genPc' = "errored"
    /\ events' = Append(events, Event("error", NoModel, ""))
    /\ UNCHANGED << stage, disconnected, is_first_message, title_task,
                    progress_queue, userSaved, assistantSaved, titleSaved,
                    stage1_results, stage2_results, discAt >>

\* The first ensure_client_connected(), add_user_message, the creation of
\* the title task, up to the await of the second ensure_client_connected().
GenStart ==
    /\ genPc = "start"
    /\ IF disconnected
         THEN EndCancelled
         ELSE /\ userSaved' = userSaved + 1
              /\ title_task' = IF is_first_message THEN "running" ELSE "none"
              /\ genPc' = "check_stage1"
              /\ UNCHANGED << stage, disconnected, is_first_message,
                              progress_queue, events, assistantSaved, titleSaved,
                              stage1_results, stage2_results, discAt >>
    /\ UNCHANGED << engineVars, clientVars, aggVars >>

\* ensure_client_connected() answers; yield stage1_start.
GenStage1Start ==
    /\ genPc = "check_stage1"
    /\ IF disconnected
         THEN EndCancelled
         ELSE /\ events' = Append(events, Event(StageName(1, "start"), NoModel, ""))
              /\ stage' = 1
              /\ genPc' = "yield_start"
              /\ UNCHANGED << disconnected, is_first_message, title_task,
                              progress_queue, userSaved, assistantSaved,
                              titleSaved, stage1_results, stage2_results, discAt >>
    /\ UNCHANGED << engineVars, clientVars, aggVars >>

\* After the stageN_start yield: the progress queue and the stage task are
\* created; the task runs stageN_collect into query_models_parallel; the
\* generator waits on the progress queue.
GenStageTask ==
    /\ genPc = "yield_start"
    /\ stage \in {1, 2}
    /\ progress_queue' = <<>>
    /\ EngineCall
    /\ genPc' = "loop"
    /\ UNCHANGED << models, hasProgress, clientVars, aggVars >>
    /\ UNCHANGED << stage, disconnected, is_first_message, title_task, events,
                    userSaved, assistantSaved, titleSaved, stage1_results,
                    stage2_results, discAt >>

StageCompleteWithoutAwait(agg) ==
    /\ IF stage = 1
         THEN /\ stage1_results' = responses
              /\ events' = Append(events, Event(StageName(1, "complete"), NoModel, ""))
              /\ genPc' = "yield_complete"
              /\ UNCHANGED stage2_results
         ELSE /\ stage2_results' = responses
              /\ events' = Append(events, Event(StageName(2, "complete"), NoModel, ""))
              /\ genPc' = "yield_complete"
              /\ UNCHANGED stage1_results
    /\ UNCHANGED << stage, disconnected, is_first_message, title_task,
                    progress_queue, userSaved, assistantSaved, titleSaved, discAt >>

\* The loop is left: `await stageN_task` hands over the task's result or its
\* CancelledError; stage 2 then computes the aggregate rankings, which may
\* raise; yield stageN_complete.
StageComplete(agg) ==
    IF pc = "raised"
      THEN EndCancelled
      ELSE IF stage = 1
        THEN /\ stage1_results' = responses
             /\ events' = Append(events, Event(StageName(1, "complete"), NoModel, ""))
             /\ genPc' = "yield_complete"
             /\ UNCHANGED << stage, disconnected, is_first_message, title_task,
                             progress_queue, userSaved, assistantSaved,
                             titleSaved, stage2_results, discAt >>
        ELSE IF agg = "raise"
          THEN EndError
          ELSE /\ stage2_results' = responses
               /\ events' = Append(events, Event(StageName(2, "complete"), NoModel, ""))
               /\ genPc' = "yield_complete"
               /\ UNCHANGED << stage, disconnected, is_first_message, title_task,
                               progress_queue, userSaved, assistantSaved,
                               titleSaved, stage1_results, discAt >>

LoopTopOnTaskDone(agg) ==
    IF StageTaskDone
      THEN StageComplete(agg)
      ELSE /\ genPc' = "loop"
           /\ UNCHANGED << stage, disconnected, is_first_message, title_task,
                           progress_queue, events, userSaved, assistantSaved,
                           titleSaved, stage1_results, stage2_results, discAt >>

LoopTopOnEmptyQueue(agg) ==
    IF progress_queue = <<>>
      THEN StageCompleteWithoutAwait(agg)
      ELSE /\ genPc' = "loop"
           /\ UNCHANGED << stage, disconnected, is_first_message, title_task,
                           progress_queue, events, userSaved, assistantSaved,
                           titleSaved, stage1_results, stage2_results, discAt >>

\* while True: if stageN_task.done() and stageN_progress_queue.empty(): break
\* -- otherwise wait for the queue.
LoopTop(agg) ==
    IF StageTaskDone /\ progress_queue = <<>>
      THEN StageComplete(agg)
      ELSE /\ genPc' = "loop"
           /\ UNCHANGED << stage, disconnected, is_first_message, title_task,
                           progress_queue, events, userSaved, assistantSaved,
                           titleSaved, stage1_results, stage2_results, discAt >>

\* wait_for(queue.get(), 0.25) hands over an event: it is yielded.
GenLoopEvent ==
    /\ genPc = "loop"
    /\ progress_queue # <<>>
    /\ events' = Append(events, Head(progress_queue))
    /\ progress_queue' = Tail(progress_queue)
    /\ genPc' = "yield_progress"
    /\ UNCHANGED << stage, disconnected, is_first_message, title_task, userSaved,
                    assistantSaved, titleSaved, stage1_results, stage2_results,
                    discAt >>
    /\ UNCHANGED << engineVars, clientVars, aggVars >>

\* After the yield of a progress event: back to the top of the loop.
GenLoopResume ==
    /\ genPc = "yield_progress"
    /\ \E agg \in CallOutcomes : LoopTop(agg)
    /\ UNCHANGED << engineVars, clientVars, aggVars >>

\* wait_for times out on an empty queue: ensure_client_connected(), continue.
GenLoopTimeout ==
    /\ genPc = "loop"
    /\ progress_queue = <<>>
    /\ IF disconnected
         THEN EndCancelled
         ELSE \E agg \in CallOutcomes : LoopTop(agg)
    /\ UNCHANGED << engineVars, clientVars, aggVars >>

GenNextStageAfterTitle ==
    /\ genPc = "yield_complete"
    /\ title_task # "running"
    /\ IF disconnected
         THEN EndCancelled
         ELSE /\ events' = Append(events, Event(StageName(stage + 1, "start"), NoModel, ""))
              /\ stage' = stage + 1
              /\ genPc' = IF stage = 1 THEN "yield_start" ELSE "yield_start3"
              /\ UNCHANGED << disconnected, is_first_message, title_task,
                              progress_queue, userSaved, assistantSaved,
                              titleSaved, stage1_results, stage2_results, discAt >>
    /\ UNCHANGED << engineVars, clientVars, aggVars >>

\* After the yield of stageN_complete: ensure_client_connected(), then yield
\* the next stage's start event.
GenNextStage ==
    /\ genPc = "yield_complete"
    /\ IF disconnected
         THEN EndCancelled
         ELSE /\ events' = Append(events, Event(StageName(stage + 1, "start"), NoModel, ""))
              /\ stage' = stage + 1
              /\ genPc' = IF stage = 1 THEN "yield_start" ELSE "yield_start3"
              /\ UNCHANGED << disconnected, is_first_message, title_task,
                              progress_queue, userSaved, assistantSaved,
                              titleSaved, stage1_results, stage2_results, discAt >>
    /\ UNCHANGED << engineVars, clientVars, aggVars >>

\* After the stage3_start yield: await stage3_synthesize_final(...).
GenStage3Call ==
    /\ genPc = "yield_start3"
    /\ genPc' = "stage3"
    /\ UNCHANGED << stage, disconnected, is_first_message, title_task,
                    progress_queue, events, userSaved, assistantSaved,
                    titleSaved, stage1_results, stage2_results, discAt >>
    /\ UNCHANGED << engineVars, clientVars, aggVars >>

\* stage3_synthesize_final returns (yield stage3_complete) or raises.
GenStage3Return(out) ==
    /\ genPc = "stage3"
    /\ IF out = "raise"
         THEN EndError
         ELSE /\ events' = Append(events, Event(StageName(3, "complete"), NoModel, ""))
              /\ genPc' = "yield_stage3"
              /\ UNCHANGED << stage, disconnected, is_first_message, title_task,
                              progress_queue, userSaved, assistantSaved,
                              titleSaved, stage1_results, stage2_results, discAt >>
    /\ UNCHANGED << engineVars, clientVars, aggVars >>

\* generate_conversation_title ends.
TitleFinish(out) ==
    /\ title_task = "running"
    /\ title_task' = IF out = "ok" THEN "done" ELSE "failed"
    /\ UNCHANGED << genPc, stage, disconnected, is_first_message, progress_queue,
                    events, userSaved, assistantSaved, titleSaved,
                    stage1_results, stage2_results, discAt >>
    /\ UNCHANGED << engineVars, clientVars, aggVars >>

\* if title_task: title = await title_task; update_conversation_title;
\* yield title_complete.
GenTitle ==
    /\ genPc = "yield_stage3"
    /\ title_task \in {"done", "failed"}
    /\ IF title_task = "failed"
         THEN EndError
         ELSE /\ titleSaved' = titleSaved + 1
              /\ events' = Append(events, Event("title_complete", NoModel, ""))
              /\ genPc' = "yield_title"
              /\ UNCHANGED << stage, disconnected, is_first_message, title_task,
                              progress_queue, userSaved, assistantSaved,
                              stage1_results, stage2_results, discAt >>
    /\ UNCHANGED << engineVars, clientVars, aggVars >>

GenSaveWithoutPersist ==
    /\ \/ genPc = "yield_title"
       \/ genPc = "yield_stage3" /\ title_task = "none"
    /\ IF disconnected
         THEN EndCancelled
         ELSE /\ events' = Append(events, Event("complete", NoModel, ""))
              /\ genPc' = "done"
              /\ UNCHANGED << stage, disconnected, is_first_message, title_task,
                              progress_queue, userSaved, assistantSaved, titleSaved,
                              stage1_results, stage2_results, discAt >>
    /\ UNCHANGED << engineVars, clientVars, aggVars >>

\* ensure_client_connected(), add_assistant_message, yield complete; the
\* generator ends after it.
GenSave ==
    /\ \/ genPc = "yield_title"
       \/ genPc = "yield_stage3" /\ title_task = "none"
    /\ IF disconnected
         THEN EndCancelled
         ELSE /\ assistantSaved' = assistantSaved + 1
              /\ events' = Append(events, Event("complete", NoModel, ""))
              /\ genPc' = "done"
              /\ UNCHANGED << stage, disconnected, is_first_message, title_task,
                              progress_queue, userSaved, titleSaved,
                              stage1_results, stage2_results, discAt >>
    /\ UNCHANGED << engineVars, clientVars, aggVars >>

\* stage1_progress / stage2_progress, the on_progress of the stage's engine
\* call: ensure_client_connected() raises CancelledError on a disconnect;
\* otherwise the progress event is put on the stage's progress queue.
StageProgress ==
    /\ pc = "progress"
    /\ IF disconnected
         THEN /\ ProgressReturn("cancel")
              /\ UNCHANGED << streamVars, clientVars, aggVars >>
         ELSE /\ ProgressReturn("ok")
              /\ progress_queue' = Append(progress_queue,
                    Event(StageName(stage, "progress"), cur,
                          IF responses[cur] # Null THEN "ok" ELSE "error"))
              /\ UNCHANGED << genPc, stage, disconnected, is_first_message,
                              title_task, events, userSaved, assistantSaved,
                              titleSaved, stage1_results, stage2_results, discAt >>
              /\ UNCHANGED << clientVars, aggVars >>

\* The client goes away while the stream is open.
ClientDisconnect ==
    /\ ~disconnected
    /\ genPc \notin {"done", "cancelled", "errored"}
    /\ disconnected' = TRUE
    /\ discAt' = [stage |-> stage,
                  running |-> pc \in {"drain", "progress", "gather"},
                  unresolved |-> Cardinality({ m \in Range(models) : outcome[m] = "none" }),
                  n |-> Len(events)]
    /\ UNCHANGED << genPc, stage, is_first_message, title_task, progress_queue,
                    events, userSaved, assistantSaved, titleSaved,
                    stage1_results, stage2_results >>
    /\ UNCHANGED << engineVars, clientVars, aggVars >>

\* A streaming request arrives for a conversation whose council is a
\* non-empty list of distinct models.
StreamInit ==
    \E ms \in CouncilLists, first \in BOOLEAN :
        /\ EngineIdle(ms, TRUE)
        /\ StreamIdle(first)
        /\ ClientIdle
        /\ AggIdle

StreamNext ==
    \/ GenStart
    \/ GenStage1Start
    \/ GenStageTask
    \/ GenLoopEvent
    \/ GenLoopResume
    \/ GenLoopTimeout
    \/ GenNextStage
    \/ GenStage3Call
    \/ \E out \in CallOutcomes : GenStage3Return(out)
    \/ \E out \in CallOutcomes : TitleFinish(out)
    \/ GenTitle
    \/ GenSave
    \/ StageProgress
    \/ ClientDisconnect
    \/ \E m \in Range(models) : ParStart(m) /\ UNCHANGED << streamVars, clientVars, aggVars >>
    \/ \E m \in Range(models), out \in ClientOutcomes :
          ParFinish(m, out) /\ UNCHANGED << streamVars, clientVars, aggVars >>
    \/ \E m \in Range(models) : ParCancelled(m) /\ UNCHANGED << streamVars, clientVars, aggVars >>
    \/ LocalStart /\ UNCHANGED << streamVars, clientVars, aggVars >>
    \/ \E out \in ClientOutcomes : LocalFinish(out) /\ UNCHANGED << streamVars, clientVars, aggVars >>
    \/ LocalCancelled /\ UNCHANGED << streamVars, clientVars, aggVars >>
    \/ DrainGet /\ UNCHANGED << streamVars, clientVars, aggVars >>
    \/ GatherReturn /\ UNCHANGED << streamVars, clientVars, aggVars >>

StreamSpec == StreamInit /\ [][StreamNext]_vars

----------------------------------------------------------------------------
\* One call of query_model(model, messages, timeout) and the backend client
\* it dispatches to. The caller may cancel the task that awaits the call.

\* Longest `messages` list handed to query_model.
MaxMessages == 3

\* The `messages` lists: the non-empty sub-lists (order kept) of MessagePool
\* with at most MaxMessages entries.
MessagePool ==
    << [role |-> "system", content |-> "rules"],
       [role |-> "user", content |-> "question"],
       [role |-> "assistant", content |-> "answer"],
       [role |-> "user", content |-> "follow-up"] >>

\* The identifiers query_model is called with: besides those of ModelPool,
\* two without a "/" and one with "local" as its second segment.
ClientModels ==
    Range(ModelPool) \cup { <<"local">>, <<"ollama">>, <<"openai", "/", "local">> }

\* The values of OLLAMA_API_URL: unset, and a base URL without and with a
\* trailing "/".
OllamaUrls == { <<>>, <<"http://ollama:11434">>, <<"http://ollama:11434", "/">> }

\* str.strip("/"): the "/" at both ends are dropped.
RECURSIVE Strip(_)
Strip(u) ==
    IF u = <<>> THEN <<>>
    ELSE IF Head(u) = "/" THEN Strip(Tail(u))
    ELSE IF u[Len(u)] = "/" THEN Strip(SubSeq(u, 1, Len(u) - 1))
    ELSE u

\* model.split("/", 1)[1]: what follows the first "/".
RECURSIVE AfterFirstSlash(_)
AfterFirstSlash(m) ==
    IF Head(m) = "/" THEN Tail(m) ELSE AfterFirstSlash(Tail(m))

\* raw_model = model.split("/", 1)[1] if "/" in model else model
raw_model(m) == IF InSeq("/", m) THEN AfterFirstSlash(m) ELSE m

\* The Response whose content is None.
NoContent == <<"content", <<"None">>>>

query_model_any_segment(m) ==
    IF InSeq("local", m) THEN "query_ramalama"
    ELSE IF InSeq("ollama", m) THEN "query_ollama"
    ELSE "query_openrouter"

\* match model.partition("/")[0]: the client query_model awaits.
query_model(m) ==
    IF Partition0(m) = <<"local">> THEN "query_ramalama"
    ELSE IF Partition0(m) = <<"ollama">> THEN "query_ollama"
    ELSE "query_openrouter"

\* What os.stat and os.access find at a socket path: a readable and writable
\* socket, something else, nothing (FileNotFoundError), or another OSError
\* (a parent directory that may not be searched, a parent that is a file).
StatOutcomes == {"rw_socket", "other", "missing", "oserror"}

\* _socket_is_rw: only FileNotFoundError is caught around os.stat.
socket_is_rw(st) ==
    IF st = "missing" THEN "false"
    ELSE IF st = "oserror" THEN "raise"
    ELSE IF st = "rw_socket" THEN "true"
    ELSE "false"

\* The socket paths has_docker_socket_access probes when DOCKER_HOST is unset.
candidates ==
    << "socket_path", "/run/docker.sock", "/run/user/uid/docker.sock",
       "/run/podman/podman.sock", "/run/user/uid/podman/podman.sock" >>

\* The environments of the probe: whether a docker or podman client is on
\* the PATH, what DOCKER_HOST holds, and what is found at each socket path.
Environments ==
    [has_client : BOOLEAN,
     docker_host : {"unset", "unix", "tcp"},
     stat : [Range(candidates) \cup {"docker_host_path"} -> StatOutcomes]]

\* any(_socket_is_rw(path) for path in candidates): the paths are probed in
\* order up to the first that answers True (or raises).
RECURSIVE any_socket_is_rw(_, _)
any_socket_is_rw(paths, env) ==
    IF paths = <<>> THEN "false"
    ELSE IF socket_is_rw(env.stat[Head(paths)]) = "false"
           THEN any_socket_is_rw(Tail(paths), env)
           ELSE socket_is_rw(env.stat[Head(paths)])

\* has_docker_socket_access(): "true", "false", or "raise" when os.stat
\* raised an error _socket_is_rw does not catch.
has_docker_socket_access(env) ==
    IF ~env.has_client THEN "false"
    ELSE IF env.docker_host = "unix" THEN socket_is_rw(env.stat["docker_host_path"])
    ELSE IF env.docker_host = "tcp" THEN "true"
    ELSE any_socket_is_rw(candidates, env)

\* Where the answer of the probe takes query_ramalama: out by the error, out
\* with None, or on to asyncio.to_thread(run_sync).
AfterProbeUngated(ans) ==
    IF ans = "raise" THEN "raised" ELSE "to_thread"

AfterProbe(ans) ==
    IF ans = "raise" THEN "raised"
    ELSE IF ans = "false" THEN "returned"
    ELSE "to_thread"

\* query_model dispatches to query_ramalama, which probes for the container
\* runtime and, when it is there, hands run_sync to a worker thread and
\* waits for it.
query_ramalama(env) ==
    /\ cpc = "call"
    /\ query_model(model) = "query_ramalama"
    /\ LET ans == has_docker_socket_access(env)
       IN  /\ probes' = Append(probes, ans)
           /\ cpc' = AfterProbe(ans)
           /\ result' = IF cpc' = "returned" THEN Null ELSE result
           /\ thread' = IF cpc' = "to_thread" THEN "enter" ELSE thread
    /\ UNCHANGED << model, messages, OLLAMA_API_URL, answers, runtime, chats, requests >>
    /\ UNCHANGED << engineVars, streamVars, aggVars >>

\* How entering `with RamalamaModel(raw_model, timeout=...)` can end: the
\* runtime is up, or the SDK raised (no container manager, the server did
\* not come up in time, anything else) and left no runtime behind.
EnterOutcomes == {"ok", "no_manager", "timeout", "error"}

\* The worker thread enters the with block.
run_sync_enter(out) ==
    /\ thread = "enter"
    /\ IF out = "ok"
         THEN /\ runtime' = "running"
              /\ thread' = "chat"
         ELSE /\ thread' = "failed"
              /\ UNCHANGED runtime
    /\ UNCHANGED << model, messages, OLLAMA_API_URL, answers, cpc, result, probes, chats,
                    requests >>
    /\ UNCHANGED << engineVars, streamVars, aggVars >>

history_with_last(msgs) == msgs

\* history = [m for m in messages[:-1]]
history(msgs) == IF msgs = <<>> THEN <<>> ELSE SubSeq(msgs, 1, Len(msgs) - 1)

\* How rm.chat can end.
ChatOutcomes == {"ok", "error"}

\* reply = rm.chat(messages[-1]["content"], history=history)
run_sync_chat(out) ==
    /\ thread = "chat"
    /\ chats' = Append(chats, [content |-> messages[Len(messages)].content,
                               history |-> history(messages)])
    /\ thread' = IF out = "ok" THEN "exit_ok" ELSE "exit_error"
    /\ UNCHANGED << model, messages, OLLAMA_API_URL, answers, cpc, result, probes, runtime,
                    requests >>
    /\ UNCHANGED << engineVars, streamVars, aggVars >>

\* The with block is left, by the return or by the error of the chat: the
\* SDK stops the runtime, and run_sync ends.
run_sync_exit ==
    /\ thread \in {"exit_ok", "exit_error"}
    /\ runtime' = "stopped"
    /\ thread' = IF thread = "exit_ok" THEN "done" ELSE "failed"
    /\ UNCHANGED << model, messages, OLLAMA_API_URL, answers, cpc, result, probes, chats,
                    requests >>
    /\ UNCHANGED << engineVars, streamVars, aggVars >>

\* await asyncio.to_thread(run_sync) hands over what run_sync returned, or
\* its error, which one of the except clauses turns into None.
to_thread_done ==
    /\ cpc = "to_thread"
    /\ thread \in {"done", "failed"}
    /\ result' = IF thread = "done" THEN Resp(model) ELSE Null
    /\ cpc' = "returned"
    /\ UNCHANGED << model, messages, OLLAMA_API_URL, answers, probes, thread, runtime,
                    chats, requests >>
    /\ UNCHANGED << engineVars, streamVars, aggVars >>

\* An HTTP request as far as the properties need it.
Request(url, m) == [url |-> url, model |-> m, messages |-> messages]

\* How an awaited client.post(...) with what follows it inside the try can
\* end: a 2xx answer whose JSON body has "message", has "choices", or has
\* neither; a 404; another non-2xx status; or an error (no connection, the
\* deadline passed, a body that is no JSON or lacks the expected parts).
HttpOutcomes == {"200_message", "200_choices", "200_other", "404", "500", "error"}

\* query_model dispatches to query_ollama: None without a base URL, else the
\* POST to the native endpoint.
query_ollama ==
    /\ cpc = "call"
    /\ query_model(model) = "query_ollama"
    /\ IF OLLAMA_API_URL = <<>>
         THEN /\ result' = Null
              /\ cpc' = "returned"
              /\ UNCHANGED requests
         ELSE /\ requests' = Append(requests,
                    Request(Strip(OLLAMA_API_URL) \o <<"/api/chat">>, raw_model(model)))
              /\ cpc' = "post_native"
              /\ UNCHANGED result
    /\ UNCHANGED << model, messages, OLLAMA_API_URL, answers, probes, thread, runtime, chats >>
    /\ UNCHANGED << engineVars, streamVars, aggVars >>

\* What query_ollama makes of an answer after raise_for_status().
ollama_result(resp) ==
    IF resp \in {"200_message", "200_choices"} THEN Resp(model)
    ELSE IF resp = "200_other" THEN NoContent
    ELSE Null

ollama_native_fallback_on_error(resp) ==
    /\ cpc = "post_native"
    /\ answers' = Append(answers, resp)
    /\ IF resp \in {"404", "500"}
         THEN /\ requests' = Append(requests,
                    Request(Strip(OLLAMA_API_URL) \o <<"/v1/chat/completions">>,
                            raw_model(model)))
              /\ cpc' = "post_fallback"
              /\ UNCHANGED result
         ELSE /\ result' = ollama_result(resp)
              /\ cpc' = "returned"
              /\ UNCHANGED requests
    /\ UNCHANGED << model, messages, OLLAMA_API_URL, probes, thread, runtime, chats >>
    /\ UNCHANGED << engineVars, streamVars, aggVars >>

\* The native endpoint answers: on a 404 the OpenAI-compatible endpoint is
\* tried, otherwise the answer is the query's.
ollama_native(resp) ==
    /\ cpc = "post_native"
    /\ answers' = Append(answers, resp)
    /\ IF resp = "404"
         THEN /\ requests' = Append(requests,
                    Request(Strip(OLLAMA_API_URL) \o <<"/v1/chat/completions">>,
                            raw_model(model)))
              /\ cpc' = "post_fallback"
              /\ UNCHANGED result
         ELSE /\ result' = ollama_result(resp)
              /\ cpc' = "returned"
              /\ UNCHANGED requests
    /\ UNCHANGED << model, messages, OLLAMA_API_URL, probes, thread, runtime, chats >>
    /\ UNCHANGED << engineVars, streamVars, aggVars >>

\* The OpenAI-compatible endpoint answers.
ollama_fallback(resp) ==
    /\ cpc = "post_fallback"
    /\ answers' = Append(answers, resp)
    /\ result' = ollama_result(resp)
    /\ cpc' = "returned"
    /\ UNCHANGED << model, messages, OLLAMA_API_URL, probes, thread, runtime,
                    chats, requests >>
    /\ UNCHANGED << engineVars, streamVars, aggVars >>

\* query_model dispatches to query_openrouter: the one POST.
query_openrouter ==
    /\ cpc = "call"
    /\ query_model(model) = "query_openrouter"
    /\ requests' = Append(requests, Request(<<"OPENROUTER_API_URL">>, model))
    /\ cpc' = "post"
    /\ UNCHANGED << model, messages, OLLAMA_API_URL, answers, result, probes, thread,
                    runtime, chats >>
    /\ UNCHANGED << engineVars, streamVars, aggVars >>

\* OpenRouter answers: message = data["choices"][0]["message"].
openrouter_response(resp) ==
    /\ cpc = "post"
    /\ answers' = Append(answers, resp)
    /\ result' = IF resp = "200_choices" THEN Resp(model) ELSE Null
    /\ cpc' = "returned"
    /\ UNCHANGED << model, messages, OLLAMA_API_URL, probes, thread, runtime,
                    chats, requests >>
    /\ UNCHANGED << engineVars, streamVars, aggVars >>

\* The awaits at which the coroutine is suspended.
Awaiting == {"to_thread", "post_native", "post_fallback", "post"}

\* The caller cancels the task awaiting query_model: CancelledError is
\* raised at the await; it is no Exception, so no except clause of the
\* clients catches it. The worker thread of asyncio.to_thread is not
\* interrupted by it.
QueryCancelled ==
    /\ cpc \in Awaiting
    /\ cpc' = "cancelled"
    /\ UNCHANGED << model, messages, OLLAMA_API_URL, answers, result, probes, thread,
                    runtime, chats, requests >>
    /\ UNCHANGED << engineVars, streamVars, aggVars >>

\* A caller is about to await query_model(model, messages, timeout).
ClientInit ==
    /\ EngineIdle(<<ModelPool[1]>>, FALSE)
    /\ StreamIdle(FALSE)
    /\ AggIdle
    /\ model \in ClientModels
    /\ messages \in SubLists(MessagePool, MaxMessages)
    /\ OLLAMA_API_URL \in OllamaUrls
    /\ cpc = "call"
    /\ result = <<"pending">>
    /\ probes = <<>>
    /\ thread = "none"
    /\ runtime = "absent"
    /\ chats = <<>>
    /\ requests = <<>>
    /\ answers = <<>>

ClientNext ==
    \/ \E env \in Environments : query_ramalama(env)
    \/ \E out \in EnterOutcomes : run_sync_enter(out)
    \/ \E out \in ChatOutcomes : run_sync_chat(out)
    \/ run_sync_exit
    \/ to_thread_done
    \/ query_ollama
    \/ \E resp \in HttpOutcomes : ollama_native(resp)
    \/ \E resp \in HttpOutcomes : ollama_fallback(resp)
    \/ query_openrouter
    \/ \E resp \in HttpOutcomes : openrouter_response(resp)
    \/ QueryCancelled

ClientSpec == ClientInit /\ [][ClientNext]_vars

----------------------------------------------------------------------------
\* The aggregation of the stage-2 rankings (calculate_aggregate_rankings),
\* applied to the label lists extracted from the ranking models' texts.

\* Most ranking models whose rankings are aggregated.
MaxRankers == 2

\* The anonymous labels of the stage-1 respondents.
Labels == <<"A", "B", "C">>

\* The label -> model map of the turn.
label_to_model ==
    [l \in Range(Labels) |->
        IF l = "A" THEN <<"openai", "/", "a">>
        ELSE IF l = "B" THEN <<"local", "/", "a">>
        ELSE <<"ollama", "/", "b">>]

\* The label lists that can be extracted from one ranking text: any list of
\* distinct labels, the empty list when nothing could be parsed.
RankLists == {<<>>} \cup DistinctSeqs(Range(Labels), Len(Labels))

\* The tokens of the identifiers in the order of their strings.
TokenOrder == <<"/", "a", "b", "local", "ollama", "openai">>

TokenRank(t) == CHOOSE i \in DOMAIN TokenOrder : TokenOrder[i] = t

\* a < b for two identifiers, compared as strings.
RECURSIVE LexLess(_, _)
LexLess(a, b) ==
    IF b = <<>> THEN FALSE
    ELSE IF a = <<>> THEN TRUE
    ELSE IF Head(a) = Head(b) THEN LexLess(Tail(a), Tail(b))
    ELSE TokenRank(Head(a)) < TokenRank(Head(b))

\* pts points more for model m; a model's entry is created at its first award.
Award(scores, m, pts) ==
    IF \E i \in DOMAIN scores : scores[i].model = m
      THEN [i \in DOMAIN scores |->
              IF scores[i].model = m
                THEN [model |-> m, score |-> scores[i].score + pts]
                ELSE scores[i]]
      ELSE Append(scores, [model |-> m, score |-> pts])

\* For the label at 0-indexed position p of a ranking r of n labels, n - p
\* points go to the label's model.
RECURSIVE ScoreRanking(_, _, _)
ScoreRanking(scores, r, p) ==
    IF p >= Len(r) THEN scores
    ELSE ScoreRanking(Award(scores, label_to_model[r[p + 1]], Len(r) - p), r, p + 1)

\* The points are summed over the rankings, taken in the order supplied.
RECURSIVE ScoreAll(_, _)
ScoreAll(scores, rs) ==
    IF rs = <<>> THEN scores
    ELSE ScoreAll(ScoreRanking(scores, Head(rs), 0), Tail(rs))

RankedBeforeByScore(x, y) == x.score > y.score

\* The order of the aggregate: the higher score first, and of two equal
\* scores the lexically smaller identifier first.
RankedBefore(x, y) ==
    \/ x.score > y.score
    \/ x.score = y.score /\ LexLess(x.model, y.model)

\* x is put into the sorted list behind every entry it does not precede.
RECURSIVE Insert(_, _)
Insert(sorted, x) ==
    IF sorted = <<>> THEN <<x>>
    ELSE IF RankedBefore(x, Head(sorted)) THEN <<x>> \o sorted
    ELSE <<Head(sorted)>> \o Insert(Tail(sorted), x)

RECURSIVE SortScores(_, _)
SortScores(sorted, rest) ==
    IF rest = <<>> THEN sorted
    ELSE SortScores(Insert(sorted, Head(rest)), Tail(rest))

\* calculate_aggregate_rankings(stage2_results, label_to_model)
calculate_aggregate_rankings(rs) == SortScores(<<>>, ScoreAll(<<>>, rs))

\* The stage-2 rankings of a turn are about to be aggregated.
AggInit ==
    /\ EngineIdle(<<ModelPool[1]>>, FALSE)
    /\ StreamIdle(FALSE)
    /\ ClientIdle
    /\ rankings \in UNION { [1..k -> RankLists] : k \in 1..MaxRankers }
    /\ aggregate = <<>>
    /\ aggPc = "ready"

\* aggregate_rankings = calculate_aggregate_rankings(stage2_results, label_to_model)
Aggregate ==
    /\ aggPc = "ready"
    /\ aggregate' = calculate_aggregate_rankings(rankings)
    /\ aggPc' = "done"
    /\ UNCHANGED rankings
    /\ UNCHANGED << engineVars, streamVars, clientVars >>

AggNext == Aggregate

AggSpec == AggInit /\ [][AggNext]_vars

----------------------------------------------------------------------------
\* Vocabulary of the properties.

\* Local-managed: the identifier's prefix is "local".
LocalManaged(m) == Partition0(m) = <<"local">>

InputSet == Range(models)

\* Number of on_progress invocations made with model m.
TimesReported(m) == Cardinality({ i \in DOMAIN progressCalls : progressCalls[i] = m })

\* The query of m failed: it raised an Exception or returned None.
Failed(m) == outcome[m] \in {"null", "exc"}

\* on_progress ended with `how` for model m.
ProgressEnded(m, how) == \E i \in DOMAIN progressDone : progressDone[i] = <<m, how>>

CancelSignalled == \E m \in InputSet : ProgressEnded(m, "cancel")

AllProducersFinished ==
    /\ \A m \in DOMAIN parTask : parTask[m] \in Finished
    /\ local_task \in Finished \cup {"none"}

----------------------------------------------------------------------------
\* C1. When query_models_parallel returns its result map, the key set of the
\* map is exactly the set of input models: none missing, none extra,
\* whatever the mix of lanes and of succeeding and failing queries.
C1_KeySetEqualsInput ==
    pc = "returned" => DOMAIN responses = InputSet

C1_Witness ==
    /\ pc = "returned"
    /\ Len(models) = 3
    /\ \E a, b, c \in InputSet :
          /\ LocalManaged(a) /\ outcome[a] = "exc"
          /\ ~LocalManaged(b) /\ outcome[b] = "null"
          /\ outcome[c] = "ok"

C3_AtMostOneLocalInFlight ==
    Cardinality({ m \in inFlight : LocalManaged(m) }) <= 1

C3_Witness ==
    /\ Len(local_models(models)) = 2
    /\ local_models(models)[2] \in inFlight
    /\ \E m \in inFlight : ~LocalManaged(m)

\* C4. The two lanes run concurrently: the sequential lane's first query can
\* start whatever the state of the parallel tasks, and a parallel task can
\* start, and its query can complete, whatever the state of the lane.
C4_LanesConcurrent ==
    /\ local_task = "created" => ENABLED LocalStart
    /\ \A m \in DOMAIN parTask :
          /\ parTask[m] = "created" => ENABLED ParStart(m)
          /\ parTask[m] = "running" => ENABLED ParFinish(m, "ok")

C4_Witness ==
    /\ DOMAIN parTask # {}
    /\ \A m \in DOMAIN parTask : parTask[m] = "running" /\ outcome[m] = "none"
    /\ local_task = "running"
    /\ \E m \in inFlight : LocalManaged(m)

\* C5. A model whose query fails maps to null in the returned map; the other
\* models' outcomes are still collected and reported; and the sequential
\* lane goes on to query the local models that follow a failing one (the
\* lane task is done only when every local model has been queried).
C5_FailureIsolated ==
    /\ pc = "returned" =>
          \A m \in InputSet :
             /\ Failed(m) => m \in DOMAIN responses /\ responses[m] = Null
             /\ outcome[m] = "ok" => m \in DOMAIN responses /\ responses[m] = Resp(m)
             /\ hasProgress => TimesReported(m) = 1
    /\ local_task = "done" => Range(local_models(models)) \subseteq queried
    /\ \A m \in InputSet :
          Failed(m) => m \in DOMAIN responses \/ InSeq(run_and_tag(m, outcome[m]), result_queue)

C5_Witness ==
    /\ pc = "returned"
    /\ hasProgress
    /\ Len(local_models(models)) = 2
    /\ outcome[local_models(models)[1]] = "exc"
    /\ outcome[local_models(models)[2]] = "ok"
    /\ \E m \in InputSet : ~LocalManaged(m) /\ outcome[m] = "null"

\* C6. query_models_parallel returns normally only when every input model's
\* outcome is in the map and, with on_progress, when on_progress has been
\* invoked and has finished for every model: no invocation is outstanding or
\* still to come at the return.
C6_ReturnsAfterAll ==
    pc = "returned" =>
       /\ DOMAIN responses = InputSet
       /\ drained = Len(models)
       /\ cur = NoModel
       /\ hasProgress =>
             /\ Len(progressCalls) = Len(models)
             /\ Len(progressDone) = Len(progressCalls)
             /\ \A m \in InputSet :
                   ProgressEnded(m, "ok") \/ ProgressEnded(m, "error")

C6_Witness ==
    /\ pc = "returned"
    /\ hasProgress
    /\ Len(models) = 3
    /\ Len(progressDone) = 3

\* C7. Once on_progress has raised asyncio.CancelledError the call never
\* returns a map: the error leaves the call, every producer task that was
\* not done is cancelled (none is left created or running), no query stays
\* in flight once the call has exited, and no further query is started.
C7_CancelState ==
    /\ CancelSignalled =>
          /\ pc \in {"gather", "raised"}
          /\ returned # "map"
          /\ \A m \in DOMAIN parTask : parTask[m] \in Finished \cup {"cancelling"}
          /\ local_task \in Finished \cup {"none", "cancelling"}
    /\ pc = "raised" =>
          /\ returned = "cancel"
          /\ AllProducersFinished
          /\ inFlight = {}

\* C7, as a property of behaviours: the state part above always holds, and
\* from the moment on_progress has raised CancelledError no query is started.
C7_CancelPropagates ==
    /\ []C7_CancelState
    /\ [][CancelSignalled => queried' = queried]_vars

C7_Witness ==
    /\ pc = "raised"
    /\ CancelSignalled
    /\ local_task = "cancelled"
    /\ \E m \in Range(local_models(models)) : m \notin queried
    /\ \E m \in DOMAIN parTask : parTask[m] = "cancelled" /\ m \in queried

\* C8. An Exception raised by on_progress is swallowed: the model's response
\* stays in the map, the error never leaves the call, on_progress is still
\* invoked for the models drained later, and the call returns the complete
\* map.
C8_ProgressErrorSwallowed ==
    /\ \A m \in InputSet :
          ProgressEnded(m, "error") =>
             /\ m \in DOMAIN responses
             /\ responses[m] = IF outcome[m] = "ok" THEN Resp(m) ELSE Null
    /\ ~CancelSignalled => pc # "raised" /\ pending = "none"
    /\ pc = "returned" /\ hasProgress =>
          /\ DOMAIN responses = InputSet
          /\ \A m \in InputSet : TimesReported(m) = 1

C8_Witness ==
    /\ pc = "returned"
    /\ Len(progressDone) = 3
    /\ progressDone[1][2] = "error"
    /\ outcome[progressDone[1][1]] = "ok"
    /\ progressDone[3][2] = "ok"

----------------------------------------------------------------------------
\* Vocabulary of the streaming properties.

\* The engine call of the current stage has returned with every model
\* resolved: no query in flight, every producer done, every outcome recorded.
EngineCallComplete ==
    /\ pc = "returned"
    /\ inFlight = {}
    /\ AllProducersFinished
    /\ DOMAIN responses = InputSet

Emitted(type) == \E i \in DOMAIN events : events[i].type = type

\* The client disconnected during stage 1 while some model was unresolved.
DisconnectedMidStage1 ==
    /\ discAt.stage = 1
    /\ discAt.running
    /\ discAt.unresolved > 0

\* C9. On the streaming path stage 2 (its stage2_start event and its engine
\* call) begins only when the stage-1 engine call has returned with every
\* model resolved, and stage 3 only when the stage-2 call has.
C9_StagesSequential ==
    /\ genPc = "yield_complete" => EngineCallComplete
    /\ stage = 2 /\ genPc = "yield_start" => EngineCallComplete
    /\ stage >= 2 => DOMAIN stage1_results = InputSet
    /\ Emitted("stage2_start") => stage >= 2
    /\ stage = 3 => EngineCallComplete /\ DOMAIN stage2_results = InputSet
    /\ Emitted("stage3_start") => stage = 3

C9_Witness ==
    /\ genPc = "stage3"
    /\ Emitted("stage3_start")
    /\ Len(models) = 2
    /\ \E m \in InputSet : stage1_results[m] = Null
    /\ \E m \in InputSet : stage2_results[m] # Null

\* C10 (as claimed). After a disconnect in the middle of stage 1 no further
\* event is emitted and add_assistant_message is never called.
C10_NoEventAfterDisconnect ==
    DisconnectedMidStage1 =>
       /\ Len(events) = discAt.n
       /\ assistantSaved = 0

\* C11 (as claimed). Once the stream has ended through cancellation, no
\* backend query started for the turn is still in flight, in either lane.
C11_NoQueryInFlightAfterCancel ==
    genPc = "cancelled" => inFlight = {}

\* The events of the given type in the stream so far.
CountEvents(type) == Cardinality({ i \in DOMAIN events : events[i].type = type })

\* The stream ended through the handler of a pipeline-fatal failure.
EndedInError == genPc = "errored"

\* C12 (as claimed). After a pipeline-fatal failure the stream holds exactly
\* one error event, as its last event, and no complete event, and nothing of
\* the turn is persisted: no assistant message, no title, no user message.
C12_NothingPersistedOnError ==
    EndedInError =>
       /\ CountEvents("error") = 1
       /\ events[Len(events)].type = "error"
       /\ ~Emitted("complete")
       /\ assistantSaved = 0
       /\ titleSaved = 0
       /\ userSaved = 0

\* C13. A turn that ended because a disconnect was observed (by a check of
\* the generator or through the CancelledError of the stage task) has emitted
\* neither an error event nor a complete event, and has not saved an
\* assistant message.
C13_CancellationSilent ==
    genPc = "cancelled" =>
       /\ disconnected
       /\ ~Emitted("error")
       /\ ~Emitted("complete")
       /\ assistantSaved = 0

\* The disconnect was observed by the polling check of the stage-2 loop.
C13_Witness ==
    /\ genPc = "cancelled"
    /\ stage = 2
    /\ Emitted("stage2_start")
    /\ pc # "raised"

\* C14 (as claimed). Every emission is preceded by a check of the connection:
\* after the disconnect no event is added to the stream.
C14_NoEmissionAfterDisconnect ==
    disconnected => Len(events) = discAt.n

\* C15. The on_progress invocations of a call follow the order in which the
\* outcomes were enqueued: the models on_progress has been invoked with are,
\* in order, the first of the arrivals, whatever the models' positions in the
\* input list.
C15_ProgressInArrivalOrder ==
    hasProgress =>
       /\ Len(progressCalls) <= Len(arrivals)
       /\ \A i \in DOMAIN progressCalls : progressCalls[i] = arrivals[i]

\* on_progress ran for every model, the last of the input list first.
C15_Witness ==
    /\ hasProgress
    /\ Len(models) = 3
    /\ Len(progressCalls) = 3
    /\ progressCalls[1] = models[3]
    /\ progressCalls[3] = models[1]

\* The query_model call is over: it returned, raised, or was cancelled.
QueryExited == cpc \in {"returned", "raised", "cancelled"}

\* The call went to the Local-Managed client.
LocalManagedQuery == cpc # "idle" /\ query_model(model) = "query_ramalama"

\* C16 (as claimed). No query_model call ends by handing an exception to its
\* caller: a call that was not cancelled ends by returning.
C16_NoExceptionPropagates ==
    cpc # "raised"

\* C17 (as claimed). query_ramalama is never left, by return, error or
\* cancellation, while the runtime it started is still running.
C17_RuntimeReleasedBeforeExit ==
    QueryExited => runtime # "running"

\* C18. The container-runtime precondition is probed exactly once per
\* local-managed query, and when the probe answers that it is unavailable
\* the query has returned None with no worker thread, no runtime, no chat
\* turn and no HTTP request.
C18_NoAccessReturnsNullAtOnce ==
    /\ Len(probes) <= 1
    /\ LocalManagedQuery /\ cpc # "call" => Len(probes) = 1
    /\ probes = <<"false">> =>
          /\ cpc = "returned"
          /\ result = Null
          /\ thread = "none"
          /\ runtime = "absent"
          /\ chats = <<>>
          /\ requests = <<>>

C18_Witness ==
    /\ LocalManagedQuery
    /\ probes = <<"false">>
    /\ cpc = "returned"

\* C19. A local-managed query makes at most one chat call; its new turn is
\* the content of the last message and its history is the messages before
\* the last, in their order; a query that returned a Response made exactly
\* one.
C19_OneChatTurn ==
    /\ Len(chats) <= 1
    /\ \A k \in DOMAIN chats :
          /\ chats[k].content = messages[Len(messages)].content
          /\ Len(chats[k].history) = Len(messages) - 1
          /\ \A i \in 1..(Len(messages) - 1) : chats[k].history[i] = messages[i]
    /\ LocalManagedQuery /\ cpc = "returned" /\ result # Null => Len(chats) = 1

\* A successful query with two messages of history.
C19_Witness ==
    /\ LocalManagedQuery
    /\ cpc = "returned"
    /\ result = Resp(model)
    /\ Len(messages) = 3
    /\ Len(chats) = 1
    /\ Len(chats[1].history) = 2

\* The points ranking r awards to model m.
Points(m, r) ==
    IF \E i \in DOMAIN r : label_to_model[r[i]] = m
      THEN Len(r) - ((CHOOSE i \in DOMAIN r : label_to_model[r[i]] = m) - 1)
      ELSE 0

\* The points all rankings award to model m.
RECURSIVE TotalPoints(_, _)
TotalPoints(m, rs) ==
    IF rs = <<>> THEN 0 ELSE Points(m, Head(rs)) + TotalPoints(m, Tail(rs))

\* rankings supplied in the order given by the permutation f of its indices.
Reordered(f) == [i \in DOMAIN rankings |-> rankings[f[i]]]

\* C20. The aggregate lists every model named by some ranking once, with the
\* sum over the rankings of n - p for its label at 0-indexed position p of a
\* ranking of n labels as its score, by score descending and, among equal
\* scores, by identifier ascending; and supplying the rankings in any other
\* order gives the same aggregate.
C20_BordaAggregate ==
    aggPc = "done" =>
       /\ { aggregate[i].model : i \in DOMAIN aggregate } =
             { label_to_model[l] : l \in { x \in Range(Labels) :
                  \E k \in DOMAIN rankings : InSeq(x, rankings[k]) } }
       /\ \A i, j \in DOMAIN aggregate :
             aggregate[i].model = aggregate[j].model => i = j
       /\ \A i \in DOMAIN aggregate :
             aggregate[i].score = TotalPoints(aggregate[i].model, rankings)
       /\ \A i, j \in DOMAIN aggregate :
             i < j => \/ aggregate[i].score > aggregate[j].score
                      \/ /\ aggregate[i].score = aggregate[j].score
                         /\ LexLess(aggregate[i].model, aggregate[j].model)
       /\ \A f \in Permutations(DOMAIN rankings) :
             calculate_aggregate_rankings(Reordered(f)) = aggregate

\* Two rankings that leave A and B tied at 5 points: B's model, lexically
\* the smaller, comes first although A's was awarded first.
C20_Witness ==
    /\ aggPc = "done"
    /\ rankings = << <<"A", "B", "C">>, <<"B", "A", "C">> >>
    /\ Len(aggregate) = 3
    /\ aggregate[1] = [model |-> label_to_model["B"], score |-> 5]
    /\ aggregate[2] = [model |-> label_to_model["A"], score |-> 5]
    /\ aggregate[3] = [model |-> label_to_model["C"], score |-> 2]

\* The call of query_models_parallel is over: it returned or raised.
EngineExited == pc \in {"returned", "raised"}

\* C21 (as claimed). When every query that is started ends, by a value or by
\* an error of any kind, the call of query_models_parallel eventually returns
\* or raises.
C21_CallEventuallyReturns ==
    <>EngineExited

\* C22. When a call of query_models_parallel has exited, by its return or by
\* the CancelledError of on_progress, every producer task it created (each
\* parallel task and the sequential lane's task) has returned, failed or been
\* cancelled, and no query of the call is in flight.
C22_NoProducerOutlivesCall ==
    EngineExited =>
       /\ \A m \in Range(parallel_models(models)) :
             m \in DOMAIN parTask /\ parTask[m] \in Finished
       /\ local_models(models) # <<>> => local_task \in Finished
       /\ inFlight = {}

\* The call left by the cancellation with a parallel task and the lane's
\* task cancelled on the way out.
C22_Witness ==
    /\ pc = "raised"
    /\ local_task = "cancelled"
    /\ \E m \in DOMAIN parTask : parTask[m] = "cancelled"
    /\ \E m \in DOMAIN parTask : parTask[m] = "done"

\* C23. Every stageN_progress event (N = 1, 2) in the stream comes after
\* stageN_start and before stageN_complete and the next stage's start; when
\* stageN_complete is yielded the stage's progress queue is empty and its
\* task is done; and once stageN_complete is in the stream there is one
\* stageN_progress event per model of the council.
C23_ProgressWithinStage ==
    /\ \A n \in {1, 2} : \A i \in DOMAIN events :
          events[i].type = StageName(n, "progress") =>
             /\ \E j \in 1..(i - 1) : events[j].type = StageName(n, "start")
             /\ \A j \in 1..(i - 1) :
                   events[j].type \notin {StageName(n, "complete"),
                                          StageName(n + 1, "start")}
    /\ genPc = "yield_complete" => progress_queue = <<>> /\ StageTaskDone
    /\ \A n \in {1, 2} :
          Emitted(StageName(n, "complete")) =>
             CountEvents(StageName(n, "progress")) = Len(models)

\* Both stages of a council of two are complete, each with its two progress
\* events.
C23_Witness ==
    /\ Emitted("stage2_complete")
    /\ Len(models) = 2
    /\ CountEvents("stage1_progress") = 2
    /\ CountEvents("stage2_progress") = 2

\* C24. The assistant message is persisted at most once in a turn; a complete
\* event is in the stream only when it has been persisted; and it is
\* persisted only when stage3_complete has been emitted and the results of
\* stage 1 and stage 2 hold an entry for every model of the council.
C24_CompleteAfterPersist ==
    /\ assistantSaved <= 1
    /\ CountEvents("complete") <= 1
    /\ Emitted("complete") => assistantSaved = 1
    /\ assistantSaved = 1 =>
          /\ Emitted("stage3_complete")
          /\ DOMAIN stage1_results = InputSet
          /\ DOMAIN stage2_results = InputSet
          /\ events[Len(events)].type = "complete"

\* A first turn that ran to its end.
C24_Witness ==
    /\ genPc = "done"
    /\ assistantSaved = 1
    /\ Emitted("title_complete")
    /\ events[Len(events)].type = "complete"

InSequentialLane == local_models(<<model>>) = <<model>>

InParallelLane == parallel_models(<<model>>) = <<model>>

\* The client the query was dispatched to, as seen from what it did.
ToLocalManaged == probes # <<>>

ToRemoteApi ==
    /\ probes = <<>>
    /\ requests # <<>>
    /\ \A k \in DOMAIN requests : requests[k].url = <<"OPENROUTER_API_URL">>

ToLocalHttp ==
    /\ probes = <<>>
    /\ thread = "none"
    /\ \A k \in DOMAIN requests : requests[k].url # <<"OPENROUTER_API_URL">>
    /\ requests = <<>> => OLLAMA_API_URL = <<>> /\ cpc = "returned"

\* C26. For every identifier, once query_model has dispatched: the model is
\* in the engine's sequential lane exactly when the query went to the
\* Local-Managed client, which is exactly when its first segment is "local";
\* a first segment "ollama" went to the Local-HTTP client, any other to the
\* Remote-API client, and both are in the parallel lane.
C26_LaneAgreesWithDispatch ==
    cpc \notin {"idle", "call"} =>
       /\ InSequentialLane <=> ~InParallelLane
       /\ InSequentialLane <=> ToLocalManaged
       /\ InSequentialLane <=> Partition0(model) = <<"local">>
       /\ Partition0(model) = <<"ollama">> => ToLocalHttp /\ InParallelLane
       /\ Partition0(model) \notin {<<"local">>, <<"ollama">>} =>
             ToRemoteApi /\ InParallelLane

\* An identifier whose second segment is "local" went to the Remote-API
\* client.
C26_Witness ==
    /\ model = <<"openai", "/", "local">>
    /\ cpc = "returned"
    /\ ToRemoteApi
    /\ InParallelLane

\* The call went to the Local-HTTP client.
LocalHttpQuery == cpc # "idle" /\ query_model(model) = "query_ollama"

\* The URL is the base URL, without a "/" at its end, followed by the path.
UrlIs(url, path) == url = <<"http://ollama:11434", path>>

\* C27. A Local-HTTP query sends at most two requests, the first to the
\* native chat endpoint and a second, to the OpenAI-compatible endpoint,
\* exactly when the first was answered by a 404; a non-2xx answer other than
\* the 404 of the native endpoint makes the query return None; and without a
\* base URL the query returns None and sends nothing.
C27_NativeFirstFallbackOn404 ==
    LocalHttpQuery =>
       /\ Len(requests) <= 2
       /\ Len(answers) <= Len(requests)
       /\ Len(requests) >= 1 => UrlIs(requests[1].url, "/api/chat")
       /\ Len(requests) = 2 =>
             /\ UrlIs(requests[2].url, "/v1/chat/completions")
             /\ answers[1] = "404"
       /\ Len(answers) >= 1 /\ answers[1] = "404" => Len(requests) = 2
       /\ \A k \in DOMAIN answers :
             answers[k] = "500" \/ (k = 2 /\ answers[k] = "404") =>
                cpc = "returned" /\ result = Null
       /\ OLLAMA_API_URL = <<>> =>
             /\ requests = <<>>
             /\ cpc # "call" => cpc = "returned" /\ result = Null

\* The native endpoint answered 404 and the OpenAI-compatible one 500.
C27_Witness ==
    /\ LocalHttpQuery
    /\ OLLAMA_API_URL = <<"http://ollama:11434", "/">>
    /\ answers = <<"404", "500">>
    /\ cpc = "returned"
    /\ result = Null

====
